---------------------------- MODULE Spec2Model ----------------------------
(***************************************************************************)
(* Model of analyze_brewing_data.py: load_batch_data, analyze_batches,     *)
(* generate_markdown_report and the export step of main.                   *)
(*                                                                         *)
(* JSON values are encoded as follows.                                     *)
(*   - an optional key of a dict is a sequence: <<>> when the key is       *)
(*     absent, <<v>> when it is present with value v;                      *)
(*   - a value whose Python type matters (brewDate, amount) is tagged:     *)
(*     [t |-> "num", v |-> n] for a number, [t |-> "str", v |-> 0] for a   *)
(*     non-empty string;                                                   *)
(*   - a value that should be a dict carries kind = "dict", or             *)
(*     kind = "scalar" when the JSON holds a (truthy) non-dict there, on   *)
(*     which .get raises AttributeError;                                   *)
(*   - a Counter / defaultdict / dict is a function whose DOMAIN is its    *)
(*     key set;                                                            *)
(*   - a str produced by strftime is the sequence of its character codes;  *)
(*   - a float computed by a division is the exact fraction [num, den].    *)
(***************************************************************************)
EXTENDS Integers, Sequences, FiniteSets, TLC

VARIABLES batches, pc, idx, stats, log, stats_json, md

vars == <<batches, pc, idx, stats, log, stats_json, md>>

(* Bounds of the model. *)
MaxBatches == 2

-----------------------------------------------------------------------------
(* dict.get, truthiness, Counter and defaultdict *)

None == <<>>

Some(v) == <<v>>

Has(o) == o # <<>>

Get(o, default) == IF o = <<>> THEN default ELSE o[1]

Num(n) == [t |-> "num", v |-> n]

Str == [t |-> "str", v |-> 0]

(* bool(x) of an optional tagged value: None and 0 are falsy *)
Truthy(o) == /\ o # <<>>
             /\ ~(o[1].t = "num" /\ o[1].v = 0)

EmptyMap == <<>>

(* Counter: c[k] += 1 ; __missing__ yields 0 and the assignment stores the key *)
CounterInc(c, k) ==
    IF k \in DOMAIN c THEN [c EXCEPT ![k] = @ + 1] ELSE c @@ (k :> 1)

(* Mutant: defaultdict whose read of a missing key does not store the key. *)
DefaultDictAddNoInsert(d, k, amount) ==
    IF amount.t = "num"
    THEN [map |-> IF k \in DOMAIN d THEN [d EXCEPT ![k] = @ + amount.v]
                  ELSE d @@ (k :> amount.v),
          raised |-> FALSE]
    ELSE [map |-> d, raised |-> TRUE]

(* defaultdict(float): d[k] += amount.  The read d[k] of a missing key calls *)
(* __missing__, which stores 0.0 under k before the addition is attempted;   *)
(* float + str then raises TypeError and the stored key stays.               *)
DefaultDictAdd(d, k, amount) ==
    LET d1 == IF k \in DOMAIN d THEN d ELSE d @@ (k :> 0)
    IN  IF amount.t = "num"
        THEN [map |-> [d1 EXCEPT ![k] = @ + amount.v], raised |-> FALSE]
        ELSE [map |-> d1, raised |-> TRUE]

RECURSIVE SumSeq(_)
SumSeq(s) == IF s = <<>> THEN 0 ELSE s[1] + SumSeq(Tail(s))

RECURSIVE MinSeq(_)
MinSeq(s) == IF Len(s) = 1 THEN s[1]
             ELSE LET m == MinSeq(Tail(s)) IN IF s[1] <= m THEN s[1] ELSE m

RECURSIVE MaxSeq(_)
MaxSeq(s) == IF Len(s) = 1 THEN s[1]
             ELSE LET m == MaxSeq(Tail(s)) IN IF s[1] >= m THEN s[1] ELSE m

RECURSIVE SumValues(_)
SumValues(c) ==
    IF DOMAIN c = {} THEN 0
    ELSE LET k == CHOOSE x \in DOMAIN c : TRUE
         IN  c[k] + SumValues([y \in DOMAIN c \ {k} |-> c[y]])

Frac(n, d) == [num |-> n, den |-> d]

Zero == Frac(0, 1)

-----------------------------------------------------------------------------
(* datetime *)

SecondsPerDay == 24 * 60 * 60

(* datetime.fromtimestamp(brew_date / 1000): the civil date of a timestamp. *)
(* The timestamp is held in whole seconds (the value of brew_date / 1000)   *)
(* and the local zone is UTC.                                               *)
FromTimestamp(secs) ==
    LET days == secs \div SecondsPerDay
        z    == days + 719468
        era  == z \div 146097
        doe  == z - era * 146097
        yoe  == (doe - doe \div 1460 + doe \div 36524 - doe \div 146096) \div 365
        doy  == doe - (365 * yoe + yoe \div 4 - yoe \div 100)
        mp   == (5 * doy + 2) \div 153
        d    == doy - (153 * mp + 2) \div 5 + 1
        m    == IF mp < 10 THEN mp + 3 ELSE mp - 9
        y    == yoe + era * 400 + (IF m <= 2 THEN 1 ELSE 0)
    IN  [year |-> y, month |-> m, day |-> d]

(* ordinal day of a civil date, the inverse of FromTimestamp's date part *)
ToOrdinal(dt) ==
    LET y   == IF dt.month <= 2 THEN dt.year - 1 ELSE dt.year
        era == y \div 400
        yoe == y - era * 400
        mp  == IF dt.month > 2 THEN dt.month - 3 ELSE dt.month + 9
        doy == (153 * mp + 2) \div 5 + dt.day - 1
        doe == yoe * 365 + yoe \div 4 - yoe \div 100 + doy
    IN  era * 146097 + doe - 719468

Digit(n) == 48 + n

Dash == 45

RECURSIVE Decimal(_)
Decimal(n) == IF n < 10 THEN <<Digit(n)>>
              ELSE Decimal(n \div 10) \o <<Digit(n % 10)>>

Pad2(n) == <<Digit(n \div 10), Digit(n % 10)>>

(* dt.strftime('%Y-%m-%d') *)
StrftimeDate(dt) ==
    Decimal(dt.year) \o <<Dash>> \o Pad2(dt.month) \o <<Dash>> \o Pad2(dt.day)

(* dt.strftime('%Y-%m') *)
StrftimeMonth(dt) == Decimal(dt.year) \o <<Dash>> \o Pad2(dt.month)

RECURSIVE ParseInt(_)
ParseInt(s) == IF s = <<>> THEN 0
               ELSE 10 * ParseInt(SubSeq(s, 1, Len(s) - 1)) + (s[Len(s)] - 48)

(* datetime.strptime(s, '%Y-%m-%d') *)
Strptime(s) ==
    LET n == Len(s)
    IN  [year  |-> ParseInt(SubSeq(s, 1, n - 6)),
         month |-> ParseInt(SubSeq(s, n - 4, n - 3)),
         day   |-> ParseInt(SubSeq(s, n - 1, n))]

(* str < str / str <= str: comparison by code point, position by position *)
RECURSIVE StrLess(_, _)
StrLess(a, b) ==
    IF b = <<>> THEN FALSE
    ELSE IF a = <<>> THEN TRUE
    ELSE IF a[1] # b[1] THEN a[1] < b[1]
    ELSE StrLess(Tail(a), Tail(b))

-----------------------------------------------------------------------------
(* The batch records load_batch_data can return *)

At(day, hour) == day * SecondsPerDay + hour * 3600

EmptyStyle == [kind |-> "dict", name |-> None, extra |-> FALSE]

StyleNamed(n) == [kind |-> "dict", name |-> Some(n), extra |-> FALSE]

ScalarStyle == [kind |-> "scalar", name |-> None, extra |-> FALSE]

Item(n, a) == [kind |-> "dict", name |-> Some(n), amount |-> Some(a)]

ScalarItem == [kind |-> "scalar", name |-> None, amount |-> None]

Yeast(lab, pid, n) ==
    [kind |-> "dict", name |-> Some(n), laboratory |-> lab, productId |-> pid]

(* recipe = {} *)
EmptyRecipe ==
    [kind |-> "dict", style |-> None, abv |-> None, og |-> None, fg |-> None,
     ibu |-> None, estimatedColor |-> None, efficiency |-> None,
     batchSize |-> None, equipment |-> None, fermentables |-> <<>>,
     hops |-> <<>>, yeasts |-> <<>>, fermentation |-> None]

ScalarRecipe == [EmptyRecipe EXCEPT !.kind = "scalar"]

GoodRecipe ==
    [kind |-> "dict", style |-> Some(StyleNamed("IPA")), abv |-> Some(6),
     og |-> Some(1050), fg |-> Some(1010), ibu |-> Some(40),
     estimatedColor |-> Some(8), efficiency |-> Some(72),
     batchSize |-> Some(20), equipment |-> Some([boilTime |-> Some(60)]),
     fermentables |-> <<Item("Pale Malt", Num(4)), Item("Pale Malt", Num(5))>>,
     hops |-> <<Item("Citra", Num(1))>>,
     yeasts |-> <<Yeast(Some("Fermentis"), Some("US-05"), "Safale")>>,
     fermentation |-> Some([steps |-> Some(<<[stepTemp |-> Some(18)]>>)])]

StoutRecipe ==
    [GoodRecipe EXCEPT !.style = Some([kind |-> "dict", name |-> None, extra |-> TRUE]),
                       !.ibu = Some(0), !.estimatedColor = None,
                       !.batchSize = Some(10), !.equipment = Some([boilTime |-> None]),
                       !.fermentables = <<Item("Munich", Num(3))>>,
                       !.hops = <<>>,
                       !.yeasts = <<Yeast(None, None, "Kveik")>>,
                       !.fermentation = Some([steps |-> None])]

(* batch = {} *)
EmptyBatch ==
    [kind |-> "dict", name |-> None, brewer |-> None, brewDate |-> None,
     id |-> None, batchNo |-> None, status |-> None, abv |-> None,
     og |-> None, fg |-> None, efficiency |-> None, recipe |-> None]

ScalarBatch == [EmptyBatch EXCEPT !.kind = "scalar"]

Ale ==
    [kind |-> "dict", name |-> Some("Ale"), brewer |-> Some("ann"),
     brewDate |-> Some(Num(At(18628, 0))), id |-> Some("b1"),
     batchNo |-> Some(1), status |-> Some("Completed"), abv |-> Some(5),
     og |-> Some(1048), fg |-> Some(1012), efficiency |-> Some(70),
     recipe |-> Some(GoodRecipe)]

Stout ==
    [Ale EXCEPT !.name = Some("Stout"), !.brewer = Some("bob"),
                !.brewDate = Some(Num(At(18627, 23))), !.id = Some("b2"),
                !.abv = Some(0), !.og = None, !.efficiency = None,
                !.recipe = Some(StoutRecipe)]

Records ==
    { Ale, Stout, EmptyBatch, ScalarBatch,
      (* same calendar day as Ale, later hour, same _id *)
      [Ale EXCEPT !.name = Some("Lager"), !.brewDate = Some(Num(At(18628, 10)))],
      (* the next calendar day, in the next year's first month *)
      [Stout EXCEPT !.name = Some("Porter"), !.brewDate = Some(Num(At(18629, 8)))],
      (* no _id *)
      [Ale EXCEPT !.name = Some("Bock"), !.id = None],
      (* recipe is not a dict *)
      [Ale EXCEPT !.name = Some("Gose"), !.recipe = Some(ScalarRecipe)],
      [EmptyBatch EXCEPT !.recipe = Some(ScalarRecipe)],
      (* style is not a dict *)
      [Ale EXCEPT !.name = Some("Saison"), !.recipe = Some([GoodRecipe EXCEPT !.style = Some(ScalarStyle)])],
      [Stout EXCEPT !.brewDate = None, !.recipe = Some([GoodRecipe EXCEPT !.style = Some(ScalarStyle)])],
      (* brewDate is a string, brewDate is 0 *)
      [Ale EXCEPT !.name = Some("Tripel"), !.brewDate = Some(Str)],
      [Stout EXCEPT !.name = Some("Dubbel"), !.brewDate = Some(Num(0))],
      (* abv, og, fg, efficiency on the recipe only *)
      [Ale EXCEPT !.name = Some("Helles"), !.abv = None, !.og = None, !.fg = None,
                  !.efficiency = None],
      (* first fermentation step at 0 degrees, without a temperature, no step *)
      [Ale EXCEPT !.name = Some("Eisbock"),
                  !.recipe = Some([GoodRecipe EXCEPT !.fermentation =
                      Some([steps |-> Some(<<[stepTemp |-> Some(0)], [stepTemp |-> Some(12)]>>)])])],
      [Stout EXCEPT !.name = Some("Mild"),
                  !.recipe = Some([StoutRecipe EXCEPT !.fermentation =
                      Some([steps |-> Some(<<[stepTemp |-> None]>>)])])],
      [Stout EXCEPT !.name = Some("Bitter"),
                  !.recipe = Some([StoutRecipe EXCEPT !.fermentation =
                      Some([steps |-> Some(<<>>)])])],
      (* a fermentable / hop whose amount is a string, a fermentable that is not a dict *)
      [Ale EXCEPT !.name = Some("Rauch"),
                  !.recipe = Some([GoodRecipe EXCEPT !.fermentables =
                      <<Item("Pale Malt", Num(4)), Item("Crystal", Str), Item("Munich", Num(1))>>])],
      [Stout EXCEPT !.name = Some("Wit"),
                  !.recipe = Some([GoodRecipe EXCEPT !.fermentables =
                      <<Item("Pale Malt", Num(4)), ScalarItem>>])],
      [Ale EXCEPT !.name = Some("Pils"),
                  !.recipe = Some([GoodRecipe EXCEPT !.hops =
                      <<Item("Citra", Num(2)), Item("Saaz", Str)>>])] }

RECURSIVE SeqsUpTo(_)
SeqsUpTo(n) ==
    IF n = 0 THEN {<<>>}
    ELSE LET shorter == SeqsUpTo(n - 1)
         IN  shorter \cup {Append(s, r) : s \in {t \in shorter : Len(t) = n - 1}, r \in Records}

-----------------------------------------------------------------------------
(* analyze_batches: the Statistics dict and the body of the per-record try *)

InitialStats(bs) ==
    [total_batches |-> Len(bs),
     styles |-> EmptyMap, grains |-> EmptyMap, hops |-> EmptyMap,
     yeasts |-> EmptyMap,
     abv_distribution |-> <<>>, ibu_distribution |-> <<>>,
     og_distribution |-> <<>>, fg_distribution |-> <<>>,
     batch_timeline |-> <<>>,
     brewers |-> EmptyMap,
     batch_sizes |-> <<>>, boil_times |-> <<>>, fermentation_temps |-> <<>>,
     grain_totals |-> EmptyMap, hop_totals |-> EmptyMap,
     yearly_brews |-> EmptyMap, monthly_brews |-> EmptyMap,
     color_srm |-> <<>>, efficiency |-> <<>>]

Ok(st) == [stats |-> st, raised |-> FALSE]

Raise(st) == [stats |-> st, raised |-> TRUE]

(* if key in obj: dist.append(obj[key]) *)
AppendIfPresent(dist, o) == IF Has(o) THEN Append(dist, o[1]) ELSE dist

(* lines 48-52 *)
StepBrewer(st, batch) ==
    Ok([st EXCEPT !.brewers = CounterInc(@, Get(batch.brewer, "Unknown"))])

TimelineEntry(dt, batch, recipe, style) ==
    [date |-> StrftimeDate(dt),
     name |-> Get(batch.name, "Unknown"),
     style |-> Get(style.name, "Unknown"),
     batch_id |-> Get(batch.id, ""),
     brew_number |-> Get(batch.batchNo, 0),
     brewer |-> Get(batch.brewer, "Unknown"),
     status |-> Get(batch.status, "Unknown"),
     abv |-> Get(recipe.abv, 0),
     og |-> Get(recipe.og, 0),
     fg |-> Get(recipe.fg, 0),
     ibu |-> Get(recipe.ibu, 0)]

(* Mutant: the year and month are counted before the entry is built. *)
StepTimelineCountFirst(st, batch) ==
    LET recipe == Get(batch.recipe, EmptyRecipe)
        style  == Get(recipe.style, EmptyStyle)
        dt     == FromTimestamp(batch.brewDate[1].v)
        counted == [st EXCEPT !.yearly_brews = CounterInc(@, dt.year),
                              !.monthly_brews = CounterInc(@, StrftimeMonth(dt))]
    IN  IF ~Truthy(batch.brewDate) THEN Ok(st)
        ELSE IF batch.brewDate[1].t # "num" THEN Raise(st)
        ELSE IF recipe.kind # "dict" THEN Raise(counted)
        ELSE IF style.kind # "dict" THEN Raise(counted)
        ELSE Ok([counted EXCEPT
                  !.batch_timeline = Append(@, TimelineEntry(dt, batch, recipe, style))])

(* lines 55-71.  brew_date / 1000 raises TypeError on a str; the dict      *)
(* display is evaluated before append is called, so a raise from           *)
(* recipe.get or from .get on the style leaves the timeline untouched.     *)
StepTimeline(st, batch) ==
    LET recipe == Get(batch.recipe, EmptyRecipe)
        style  == Get(recipe.style, EmptyStyle)
        dt     == FromTimestamp(batch.brewDate[1].v)
    IN  IF ~Truthy(batch.brewDate) THEN Ok(st)
        ELSE IF batch.brewDate[1].t # "num" THEN Raise(st)
        ELSE IF recipe.kind # "dict" THEN Raise(st)
        ELSE IF style.kind # "dict" THEN Raise(st)
        ELSE Ok([st EXCEPT
                  !.batch_timeline = Append(@, TimelineEntry(dt, batch, recipe, style)),
                  !.yearly_brews = CounterInc(@, dt.year),
                  !.monthly_brews = CounterInc(@, StrftimeMonth(dt))])

(* lines 74-77: an empty dict is falsy, a non-dict value is truthy *)
StepStyle(st, batch) ==
    LET recipe == Get(batch.recipe, EmptyRecipe)
        style  == Get(recipe.style, EmptyStyle)
    IN  IF recipe.kind # "dict" THEN Raise(st)
        ELSE IF style.kind # "dict" THEN Raise(st)
        ELSE IF Has(style.name) \/ style.extra
             THEN Ok([st EXCEPT !.styles = CounterInc(@, Get(style.name, "Unknown"))])
             ELSE Ok(st)

(* lines 80-100 *)
StepDistributions(st, batch) ==
    LET recipe    == Get(batch.recipe, EmptyRecipe)
        equipment == Get(recipe.equipment, [boilTime |-> None])
    IN  Ok([st EXCEPT
              !.abv_distribution = AppendIfPresent(@, batch.abv),
              !.ibu_distribution = AppendIfPresent(@, recipe.ibu),
              !.og_distribution = AppendIfPresent(@, batch.og),
              !.fg_distribution = AppendIfPresent(@, batch.fg),
              !.color_srm = AppendIfPresent(@, recipe.estimatedColor),
              !.efficiency = AppendIfPresent(@, batch.efficiency),
              !.batch_sizes = AppendIfPresent(@, recipe.batchSize),
              !.boil_times = AppendIfPresent(@, equipment.boilTime)])

(* lines 104-110 and 114-119: one pass over an ingredient list, updating   *)
(* the counter and then the total of each item until one raises            *)
RECURSIVE IngredientLoop(_, _, _)
IngredientLoop(items, counter, totals) ==
    IF items = <<>> THEN [counter |-> counter, totals |-> totals, raised |-> FALSE]
    ELSE LET item == items[1]
             name == Get(item.name, "Unknown")
             c1   == CounterInc(counter, name)
             t1   == DefaultDictAdd(totals, name, Get(item.amount, Num(0)))
         IN  IF item.kind # "dict"
             THEN [counter |-> counter, totals |-> totals, raised |-> TRUE]
             ELSE IF t1.raised
             THEN [counter |-> c1, totals |-> t1.map, raised |-> TRUE]
             ELSE IngredientLoop(Tail(items), c1, t1.map)

(* lines 103-110 *)
StepFermentables(st, batch) ==
    LET recipe == Get(batch.recipe, EmptyRecipe)
        r == IngredientLoop(recipe.fermentables, st.grains, st.grain_totals)
    IN  [stats |-> [st EXCEPT !.grains = r.counter, !.grain_totals = r.totals],
         raised |-> r.raised]

(* lines 113-119 *)
StepHops(st, batch) ==
    LET recipe == Get(batch.recipe, EmptyRecipe)
        r == IngredientLoop(recipe.hops, st.hops, st.hop_totals)
    IN  [stats |-> [st EXCEPT !.hops = r.counter, !.hop_totals = r.totals],
         raised |-> r.raised]

(* line 127: f"{lab} {product_id} - {name}" if lab else name, as its parts *)
YeastFull(yeast) ==
    IF Get(yeast.laboratory, "") # ""
    THEN <<Get(yeast.laboratory, ""), " ", Get(yeast.productId, ""), " - ",
           Get(yeast.name, "Unknown")>>
    ELSE <<Get(yeast.name, "Unknown")>>

RECURSIVE YeastLoop(_, _)
YeastLoop(items, counter) ==
    IF items = <<>> THEN [counter |-> counter, raised |-> FALSE]
    ELSE IF items[1].kind # "dict" THEN [counter |-> counter, raised |-> TRUE]
    ELSE YeastLoop(Tail(items), CounterInc(counter, YeastFull(items[1])))

(* lines 122-129 *)
StepYeasts(st, batch) ==
    LET recipe == Get(batch.recipe, EmptyRecipe)
        r == YeastLoop(recipe.yeasts, st.yeasts)
    IN  [stats |-> [st EXCEPT !.yeasts = r.counter], raised |-> r.raised]

(* lines 132-136: the temperature is appended when it is truthy *)
StepFermentation(st, batch) ==
    LET recipe       == Get(batch.recipe, EmptyRecipe)
        fermentation == Get(recipe.fermentation, [steps |-> None])
        steps        == Get(fermentation.steps, <<>>)
    IN  IF Has(fermentation.steps) /\ Len(steps) > 0
        THEN LET primary_temp == steps[1].stepTemp
             IN  IF Has(primary_temp) /\ primary_temp[1] # 0
                 THEN Ok([st EXCEPT !.fermentation_temps = Append(@, primary_temp[1])])
                 ELSE Ok(st)
        ELSE Ok(st)

TrySteps ==
    <<"brewer", "timeline", "style", "distributions", "fermentables", "hops",
      "yeasts", "fermentation">>

(* one statement group of the try block; it is skipped once one has raised *)
RunStep(step, acc, batch) ==
    IF acc.raised THEN acc
    ELSE CASE step = "brewer" -> StepBrewer(acc.stats, batch)
           [] step = "timeline" -> StepTimeline(acc.stats, batch)
           [] step = "style" -> StepStyle(acc.stats, batch)
           [] step = "distributions" -> StepDistributions(acc.stats, batch)
           [] step = "fermentables" -> StepFermentables(acc.stats, batch)
           [] step = "hops" -> StepHops(acc.stats, batch)
           [] step = "yeasts" -> StepYeasts(acc.stats, batch)
           [] step = "fermentation" -> StepFermentation(acc.stats, batch)

RECURSIVE RunSteps(_, _, _)
RunSteps(steps, acc, batch) ==
    IF steps = <<>> THEN acc
    ELSE RunSteps(Tail(steps), RunStep(steps[1], acc, batch), batch)

(* lines 44-136: the try block for one record.  batch.get on a record that *)
(* is not a dict raises at line 45.                                        *)
TryBody(st, batch) ==
    IF batch.kind # "dict" THEN Raise(st) ELSE RunSteps(TrySteps, Ok(st), batch)

-----------------------------------------------------------------------------
(* analyze_batches: after the loop *)

(* Mutant: an entry is placed before the entries that carry its own date. *)
InsertByDateBeforeEqual(sorted, e) ==
    LET later == {i \in 1..Len(sorted) : ~StrLess(sorted[i].date, e.date)}
        pos   == IF later = {} THEN Len(sorted) + 1
                 ELSE CHOOSE i \in later : \A j \in later : i <= j
    IN  SubSeq(sorted, 1, pos - 1) \o <<e>> \o SubSeq(sorted, pos, Len(sorted))

(* list.sort is stable: an entry goes after every entry whose key is not   *)
(* greater than its own                                                    *)
InsertByDate(sorted, e) ==
    LET later == {i \in 1..Len(sorted) : StrLess(e.date, sorted[i].date)}
        pos   == IF later = {} THEN Len(sorted) + 1
                 ELSE CHOOSE i \in later : \A j \in later : i <= j
    IN  SubSeq(sorted, 1, pos - 1) \o <<e>> \o SubSeq(sorted, pos, Len(sorted))

(* line 143: stats['batch_timeline'].sort(key=lambda x: x['date']) *)
RECURSIVE SortTimeline(_)
SortTimeline(tl) ==
    IF tl = <<>> THEN <<>>
    ELSE InsertByDate(SortTimeline(SubSeq(tl, 1, Len(tl) - 1)), tl[Len(tl)])

Mean(dist) == Frac(SumSeq(dist), Len(dist))

(* lines 146-177: the derived scalars, stored under their own keys *)
DerivedScalars(st) ==
    LET tl == st.batch_timeline
        abv == IF st.abv_distribution # <<>>
               THEN ("avg_abv" :> Mean(st.abv_distribution))
                    @@ ("min_abv" :> Frac(MinSeq(st.abv_distribution), 1))
                    @@ ("max_abv" :> Frac(MaxSeq(st.abv_distribution), 1))
               ELSE EmptyMap
        ibu == IF st.ibu_distribution # <<>>
               THEN ("avg_ibu" :> Mean(st.ibu_distribution))
                    @@ ("min_ibu" :> Frac(MinSeq(st.ibu_distribution), 1))
                    @@ ("max_ibu" :> Frac(MaxSeq(st.ibu_distribution), 1))
               ELSE EmptyMap
        size == IF st.batch_sizes # <<>>
                THEN ("avg_batch_size" :> Mean(st.batch_sizes)) ELSE EmptyMap
        eff == IF st.efficiency # <<>>
               THEN ("avg_efficiency" :> Mean(st.efficiency)) ELSE EmptyMap
        color == IF st.color_srm # <<>>
                 THEN ("avg_color" :> Mean(st.color_srm)) ELSE EmptyMap
        volume == "total_volume" :> Frac(SumSeq(st.batch_sizes), 1)
        years == "years_brewing" :>
                    (IF Len(tl) >= 2
                     THEN Frac(100 * (ToOrdinal(Strptime(tl[Len(tl)].date))
                                      - ToOrdinal(Strptime(tl[1].date))), 36525)
                     ELSE Zero)
    IN  abv @@ ibu @@ size @@ eff @@ color @@ volume @@ years

(* lines 142-179 *)
Finish(st) ==
    LET sorted == [st EXCEPT !.batch_timeline = SortTimeline(@)]
    IN  sorted @@ DerivedScalars(sorted)

-----------------------------------------------------------------------------
(* generate_markdown_report: the document as its sequence of sections, each *)
(* a heading with the set of its lines                                      *)

Section(heading, lines) == [heading |-> heading, lines |-> lines]

CounterLines(c) == {<<k, c[k]>> : k \in DOMAIN c}

TotalLines(c, totals) == {<<k, c[k], totals[k]>> : k \in DOMAIN c}

OptionalSection(cond, heading, lines) ==
    IF cond THEN <<Section(heading, lines)>> ELSE <<>>

(* lines 184-265 *)
MarkdownReport(st) ==
    <<Section("Overview", {st.total_batches})>>
    \o <<Section("Brewers", CounterLines(st.brewers))>>
    \o OptionalSection(st.yearly_brews # EmptyMap, "Brewing Timeline",
                       CounterLines(st.yearly_brews))
    \o <<Section("Beer Statistics", {})>>
    \o OptionalSection("avg_abv" \in DOMAIN st, "Alcohol Content (ABV)",
                       {st[k] : k \in {"avg_abv", "min_abv", "max_abv"} \cap DOMAIN st})
    \o OptionalSection("avg_ibu" \in DOMAIN st, "Bitterness (IBU)",
                       {st[k] : k \in {"avg_ibu", "min_ibu", "max_ibu"} \cap DOMAIN st})
    \o OptionalSection("avg_batch_size" \in DOMAIN st, "Batch Size",
                       {st[k] : k \in {"avg_batch_size"} \cap DOMAIN st})
    \o OptionalSection("avg_efficiency" \in DOMAIN st, "Brewing Efficiency",
                       {st[k] : k \in {"avg_efficiency"} \cap DOMAIN st})
    \o OptionalSection("avg_color" \in DOMAIN st, "Beer Color",
                       {st[k] : k \in {"avg_color"} \cap DOMAIN st})
    \o <<Section("Beer Styles", CounterLines(st.styles))>>
    \o OptionalSection(st.grains # EmptyMap, "Grains & Fermentables",
                       TotalLines(st.grains, st.grain_totals))
    \o OptionalSection(st.hops # EmptyMap, "Hops",
                       TotalLines(st.hops, st.hop_totals))
    \o OptionalSection(st.yeasts # EmptyMap, "Yeasts", CounterLines(st.yeasts))
    \o OptionalSection(st.batch_timeline # <<>>, "Brewing History",
                       {<<e.date, e.name, e.style>> :
                           e \in {st.batch_timeline[i] : i \in 1..Len(st.batch_timeline)}})

-----------------------------------------------------------------------------
(* main: the export document *)

(* stats.get(key, 0) *)
DictGet(st, key) == IF key \in DOMAIN st THEN st[key] ELSE Zero

(* line 278: {batch['_id']: batch for batch in batches}; a later record     *)
(* replaces an earlier one stored under the same key                        *)
DetailedBatchesDict(bs) ==
    LET ids == {bs[i].id[1] : i \in 1..Len(bs)}
        last(id) == CHOOSE i \in 1..Len(bs) :
                       /\ bs[i].id[1] = id
                       /\ \A j \in 1..Len(bs) : bs[j].id[1] = id => j <= i
    IN  [id \in ids |-> bs[last(id)]]

(* batch['_id'] raises on a record that is not a dict or has no '_id' *)
DetailedBatchesRaises(bs) ==
    \E i \in 1..Len(bs) : bs[i].kind # "dict" \/ ~Has(bs[i].id)

ExportedKeys ==
    {"total_batches", "styles", "grains", "hops", "yeasts", "brewers",
     "yearly_brews", "monthly_brews", "batch_timeline", "grain_totals",
     "hop_totals"}

DefaultedKeys ==
    {"avg_abv", "min_abv", "max_abv", "avg_ibu", "min_ibu", "max_ibu",
     "avg_batch_size", "avg_efficiency", "avg_color", "total_volume",
     "years_brewing"}

(* Mutant: a scalar missing from stats is left out of the document. *)
StatsJsonWithoutDefaults(st, bs) ==
    [k \in ExportedKeys |-> st[k]]
    @@ [k \in DefaultedKeys \cap DOMAIN st |-> st[k]]
    @@ ("detailed_batches" :> DetailedBatchesDict(bs))

(* lines 280-304 *)
StatsJson(st, bs) ==
    [k \in ExportedKeys |-> st[k]]
    @@ [k \in DefaultedKeys |-> DictGet(st, k)]
    @@ ("detailed_batches" :> DetailedBatchesDict(bs))

-----------------------------------------------------------------------------
(* The program *)

Init ==
    /\ batches = <<>>
    /\ pc = "load"
    /\ idx = 1
    /\ stats = InitialStats(<<>>)
    /\ log = <<>>
    /\ stats_json = EmptyMap
    /\ md = <<>>

(* line 270: batches = load_batch_data(...) *)
load_batch_data ==
    /\ pc = "load"
    /\ \E bs \in SeqsUpTo(MaxBatches) : batches' = bs
    /\ pc' = "analyze"
    /\ UNCHANGED <<idx, stats, log, stats_json, md>>

(* lines 20-41 *)
analyze_batches_begin ==
    /\ pc = "analyze"
    /\ stats' = InitialStats(batches)
    /\ idx' = 1
    /\ pc' = "loop"
    /\ UNCHANGED <<batches, log, stats_json, md>>

(* lines 43-140: one iteration.  The handler evaluates batch.get('name',   *)
(* 'Unknown'); on a record that is not a dict that call raises inside the  *)
(* handler and the exception leaves analyze_batches.                       *)
analyze_batches_record ==
    /\ pc = "loop"
    /\ idx <= Len(batches)
    /\ LET batch == batches[idx]
           r     == TryBody(stats, batch)
       IN  /\ stats' = r.stats
           /\ IF ~r.raised
              THEN /\ idx' = idx + 1
                   /\ UNCHANGED <<pc, log>>
              ELSE IF batch.kind = "dict"
              THEN /\ log' = Append(log, Get(batch.name, "Unknown"))
                   /\ idx' = idx + 1
                   /\ UNCHANGED pc
              ELSE /\ pc' = "analyze_raised"
                   /\ UNCHANGED <<idx, log>>
    /\ UNCHANGED <<batches, stats_json, md>>

(* lines 142-179 *)
analyze_batches_finish ==
    /\ pc = "loop"
    /\ idx > Len(batches)
    /\ stats' = Finish(stats)
    /\ pc' = "analyzed"
    /\ UNCHANGED <<batches, idx, log, stats_json, md>>

(* lines 278-307 *)
main_export ==
    /\ pc = "analyzed"
    /\ IF DetailedBatchesRaises(batches)
       THEN /\ pc' = "export_raised"
            /\ UNCHANGED stats_json
       ELSE /\ stats_json' = StatsJson(stats, batches)
            /\ pc' = "exported"
    /\ UNCHANGED <<batches, idx, stats, log, md>>

(* lines 181-265, called on the Statistics analyze_batches returned *)
generate_markdown_report ==
    /\ pc \in {"analyzed", "exported"}
    /\ md = <<>>
    /\ md' = MarkdownReport(stats)
    /\ UNCHANGED <<batches, pc, idx, stats, log, stats_json>>

Next ==
    \/ load_batch_data
    \/ analyze_batches_begin
    \/ analyze_batches_record
    \/ analyze_batches_finish
    \/ main_export
    \/ generate_markdown_report

Spec == Init /\ [][Next]_vars

-----------------------------------------------------------------------------
(* Properties *)

Returned == pc \in {"analyzed", "exported", "export_raised"}

(* the try body of a record raises; it does so whatever stats holds *)
Fails(batch) == TryBody(InitialStats(<<>>), batch).raised

Succeeds(batch) == ~Fails(batch)

AllSucceed == \A i \in 1..Len(batches) : Succeeds(batches[i])

(* the Statistics after the loop over bs, before the sort *)
RECURSIVE PassOver(_, _)
PassOver(st, bs) ==
    IF bs = <<>> THEN st ELSE PassOver(TryBody(st, bs[1]).stats, Tail(bs))

WithoutCount(st) == [st EXCEPT !.total_batches = 0]

(* C1: a record whose processing raises contributes to no counter, total,  *)
(* distribution or timeline entry: the finished Statistics equals the one  *)
(* obtained from the input without the failing records, except that        *)
(* total_batches is the full input length.                                 *)
C1_FailedRecordContributesNothing ==
    pc = "analyzed" =>
        LET kept == SelectSeq(batches, Succeeds)
        IN  /\ stats.total_batches = Len(batches)
            /\ WithoutCount(stats) = WithoutCount(Finish(PassOver(InitialStats(kept), kept)))

(* C2: an error raised while processing one record is caught and the pass  *)
(* goes on: no exception ever leaves the loop of analyze_batches.          *)
C2_PassNeverAborts == pc # "analyze_raised"

(* C3: after analyze_batches returns, the grain counter and the grain      *)
(* total map have the same keys, and so do the hop counter and the hop     *)
(* total map, also when a record failed inside an ingredient list.         *)
C3_CountersAndTotalsInLockStep ==
    Returned =>
        /\ DOMAIN stats.grains = DOMAIN stats.grain_totals
        /\ DOMAIN stats.hops = DOMAIN stats.hop_totals

C3_Witness ==
    /\ Returned
    /\ \E i \in 1..Len(batches) :
          /\ batches[i].kind = "dict"
          /\ Has(batches[i].recipe)
          /\ \E j \in 1..Len(batches[i].recipe[1].fermentables) :
                batches[i].recipe[1].fermentables[j] = Item("Crystal", Str)
    /\ "Crystal" \in DOMAIN stats.grains
    /\ "Munich" \notin DOMAIN stats.grains

CalendarDay(entry) == ToOrdinal(Strptime(entry.date))

(* C4: the returned timeline is ascending by calendar day, and entries of  *)
(* the same day are in the order in which their records were processed.    *)
C4_TimelineSortedAndStable ==
    Returned =>
        LET tl == stats.batch_timeline
            unsorted == PassOver(InitialStats(batches), batches).batch_timeline
        IN  /\ \A i \in 1..(Len(tl) - 1) : CalendarDay(tl[i]) <= CalendarDay(tl[i + 1])
            /\ \A i \in 1..Len(tl) :
                  LET SameDay(e) == e.date = tl[i].date
                  IN  SelectSeq(tl, SameDay) = SelectSeq(unsorted, SameDay)

C4_Witness ==
    /\ Returned
    /\ Len(stats.batch_timeline) = 2
    /\ stats.batch_timeline[1].date = stats.batch_timeline[2].date
    /\ stats.batch_timeline[1].name = "Ale"
    /\ stats.batch_timeline[2].name = "Lager"

RECURSIVE Flatten(_)
Flatten(opts) == IF opts = <<>> THEN <<>> ELSE opts[1] \o Flatten(Tail(opts))

PresentValues(bs, Field(_)) ==
    Flatten([i \in 1..Len(bs) |-> Field(Get(bs[i].recipe, EmptyRecipe))])

(* C5: each of the ABV, IBU, OG, FG, colour and efficiency distributions   *)
(* is the sequence, in record order, of the values of that field on the    *)
(* recipes that carry it.                                                  *)
C5_DistributionsFollowRecipeFields ==
    (pc = "analyzed" /\ AllSucceed) =>
        /\ stats.abv_distribution = PresentValues(batches, LAMBDA r : r.abv)
        /\ stats.ibu_distribution = PresentValues(batches, LAMBDA r : r.ibu)
        /\ stats.og_distribution = PresentValues(batches, LAMBDA r : r.og)
        /\ stats.fg_distribution = PresentValues(batches, LAMBDA r : r.fg)
        /\ stats.color_srm = PresentValues(batches, LAMBDA r : r.estimatedColor)
        /\ stats.efficiency = PresentValues(batches, LAMBDA r : r.efficiency)

FirstStepTemp(recipe) ==
    LET steps == Get(Get(recipe.fermentation, [steps |-> None]).steps, <<>>)
    IN  IF steps = <<>> THEN None ELSE steps[1].stepTemp

(* C6: the fermentation-temperature distribution holds, in record order,   *)
(* the first step's temperature of every record that has one, a            *)
(* temperature of zero included.                                           *)
C6_FirstStepTemperatureAppended ==
    (pc = "analyzed" /\ AllSucceed) =>
        stats.fermentation_temps = PresentValues(batches, FirstStepTemp)

Headings == {md[i].heading : i \in 1..Len(md)}

(* C7: the report holds no section whose data collection is empty, the     *)
(* overview excepted.                                                      *)
C7_NoSectionForEmptyData ==
    md # <<>> =>
        /\ "Brewers" \in Headings => stats.brewers # EmptyMap
        /\ "Brewing Timeline" \in Headings => stats.yearly_brews # EmptyMap
        /\ "Beer Statistics" \in Headings =>
              {"avg_abv", "avg_ibu", "avg_batch_size", "avg_efficiency", "avg_color"}
                  \cap DOMAIN stats # {}
        /\ "Beer Styles" \in Headings => stats.styles # EmptyMap
        /\ "Grains & Fermentables" \in Headings => stats.grains # EmptyMap
        /\ "Hops" \in Headings => stats.hops # EmptyMap
        /\ "Yeasts" \in Headings => stats.yeasts # EmptyMap
        /\ "Brewing History" \in Headings => stats.batch_timeline # <<>>

DistributionKeys ==
    {"abv_distribution", "ibu_distribution", "og_distribution", "fg_distribution",
     "batch_sizes", "boil_times", "fermentation_temps", "color_srm", "efficiency"}

DerivedScalarKeys ==
    {"avg_abv", "min_abv", "max_abv", "avg_ibu", "min_ibu", "max_ibu",
     "avg_batch_size", "avg_efficiency", "avg_color", "total_volume",
     "years_brewing"}

C9_DetailedBatchesNeverAborts ==
    /\ pc # "export_raised"
    /\ pc = "exported" =>
          \A i \in 1..Len(batches) :
              LET id == Get(batches[i].id, "")
              IN  /\ id \in DOMAIN stats_json.detailed_batches
                  /\ \/ stats_json.detailed_batches[id] = batches[i]
                     \/ \E j \in (i + 1)..Len(batches) : Get(batches[j].id, "") = id

(* C10: after analyze_batches returns, the counts of the brew-year counter *)
(* and of the brew-month counter each add up to the number of timeline     *)
(* entries, which is at most total_batches.                                *)
C10_TimelineAgreesWithDateCounters ==
    Returned =>
        /\ SumValues(stats.yearly_brews) = Len(stats.batch_timeline)
        /\ SumValues(stats.monthly_brews) = Len(stats.batch_timeline)
        /\ Len(stats.batch_timeline) <= stats.total_batches

C10_Witness ==
    /\ Returned
    /\ stats.total_batches = 2
    /\ Len(log) = 2
    /\ Len(stats.batch_timeline) = 1
    /\ stats.batch_timeline[1].name = log[1]
    /\ Truthy(batches[2].brewDate)

=============================================================================
